---- MODULE Spec2Model ----
(***************************************************************************)
(* A model of qiankun's loader (src/src/loader.ts): loadApp, the mount and *)
(* unmount step arrays of the parcel config it returns, the hook chain     *)
(* executor, the render function and the singular-mode deferred.           *)
(*                                                                         *)
(* JavaScript runs one task at a time: every action below is the code that *)
(* runs between two suspension points (an await, a promise a step          *)
(* returns).  The caller of the parcel config (single-spa) is external: it *)
(* may load any registered app, mount any loaded app that is not mounted,  *)
(* and unmount any mounted app, in any interleaving.                       *)
(*                                                                         *)
(* Beside the loader model (Spec, SpecPair, SpecFn, SpecRace) the module   *)
(* has the render function with the page it acts on (SpecRender), the      *)
(* making of instance ids (SpecIds), the merge of the hooks (SpecMerge),   *)
(* registerMicroApps (SpecReg), loadMicroApp (SpecManual) and start with   *)
(* the loading function of a registered app (SpecStart, SpecStartFair),    *)
(* each with its own variables; a specification leaves the others'         *)
(* variables alone.                                                        *)
(***************************************************************************)
EXTENDS Integers, Sequences, FiniteSets, TLC

(* ------------------------------ bounds --------------------------------- *)

\* Calls of loadApp under specification Spec (SpecPair, SpecFn and SpecManual
\* have one more, SpecRace two more).
NumInst == 1

\* Deferreds created in one behaviour: a mount sequence starts only while one
\* more can be issued.
MaxTokens == 2

AllInst == 1..(NumInst + 2)

\* createElement calls of one load under specification SpecRender.
MaxElems == 2

Container == "c1"

Containers == {Container}

\* The names of the apps the caller has.
AppNames == {"a", "b"}

\* loadApp calls under specification SpecIds.
MaxLoads == 3

\* Milliseconds the clock advances under specification SpecIds.
MaxTime == 2

\* Math.floor(Math.random() * 1000) is one of 0 .. RandomRange - 1.
RandomRange == 1000

\* The random suffixes tried.
RandomSamples == {0, RandomRange - 1}

\* Apps in the list of one registerMicroApps call.
MaxListLen == 3

\* loadMicroApp calls under specification SpecManual.
MaxParcels == 2

\* Registered apps whose loading function single-spa invokes.
MaxRoutes == 1

\* Calls of start in one behaviour.
MaxStarts == 1

Parcels == 1..MaxParcels

Routes == 1..MaxRoutes

\* A second container of the page, given as remountContainer.
AltContainer == "c2"

PageContainers == {Container, AltContainer}

\* A child of a container that is not a wrapper element of the load.
OtherContent == MaxElems + 1

\* No remountContainer given.
NoContainer == "none"

\* The reason a hook or an application callback rejects with, when it does.
Rejection(name) == <<"rejection", name>>

(* ------------------------------- state --------------------------------- *)

VARIABLES
  apps,                      \* the instances the caller's loadApp calls may make
  singular,                  \* configuration.singular: "true", "false" or "fn"
  pc,                        \* where each instance's load / mount / unmount stands
  step,                      \* index of the current step of the mount / unmount array
  sub,                       \* "ready", "wait" (on a deferred) or "pending" (a hook runs)
  idx,                       \* hooks of the current chain invoked so far
  waitOn,                    \* the deferred an instance awaits (0: a non-promise)
  prevAppUnmountedDeferred,  \* the module-level deferred (0: undefined)
  tokens,                    \* every Deferred created so far
  appWrapperElement,         \* TRUE: the wrapper element exists, FALSE: null
  dom,                       \* the children of each container
  sandbox,                   \* "none", "created", "mounted", "unmounted"
  stateBus,                  \* the instance's state actions: "none", "on", "off" (torn down)
  log,                       \* what the current transition has done so far
  callerErr,                 \* the rejection the caller observed (<<>>: none)
  failedAt,                  \* the step that rejected ("none": none)
  decisions                  \* results validateSingularMode gave this instance

loaderVars == <<apps, singular, pc, step, sub, idx, waitOn, prevAppUnmountedDeferred,
                tokens, appWrapperElement, dom, sandbox, stateBus, log, callerErr,
                failedAt, decisions>>

\* The render function of one load, seen on its own: the page's containers and
\* what the calls of render do to them.
VARIABLES
  docContainers,             \* the container selectors the document resolves
  docChildren,               \* the children of each container
  wrapper,                   \* appWrapperElement of the load (0: null)
  created,                   \* createElement calls so far
  legacyRender,              \* TRUE: a legacy render function was supplied
  loadingRender,             \* "none", or how the 'loading' render of loadApp ended
  lastRender                 \* the last call of render: its arguments and what it did

renderVars == <<docContainers, docChildren, wrapper, created, legacyRender,
                loadingRender, lastRender>>

\* The instance ids loadApp makes.
VARIABLES
  now,                       \* +new Date(), in milliseconds
  instanceIds                \* the appInstanceId of every loadApp call so far

idVars == <<now, instanceIds>>

\* The merge of the default and the caller's hooks, for any two hook objects.
VARIABLES
  addOns,                    \* what getAddOns returned
  lifeCycles,                \* the lifeCycles argument of loadApp
  mergedHooks,               \* the merged hooks, by key (<<>>: not merged yet)
  chainKey,                  \* the key of the chain that runs ("none": none)
  ran                        \* the hooks the running chain has invoked

mergeVars == <<addOns, lifeCycles, mergedHooks, chainKey, ran>>

\* The registry of registerMicroApps.
VARIABLES
  microApps,                 \* the module-level list of registered apps (their names)
  registered                 \* the names registerApplication was called with

regVars == <<microApps, registered>>

\* Manual loading.
VARIABLES
  appConfigPormiseGetterMap, \* key -> the loadApp call whose promise is cached (0: none)
  parcels                    \* the loadMicroApp calls

manualVars == <<appConfigPormiseGetterMap, parcels>>

\* Start of the framework and the loading functions of the registered apps.
VARIABLES
  frameworkConfiguration, \* the module's configuration ({} until start sets it)
  frameworkStartedDefer,  \* TRUE once the deferred is resolved
  singleSpa,              \* calls start has made: doPrefetchStrategy, startSingleSpa
  routeApps               \* the loading function of each registered app

startVars == <<frameworkConfiguration, frameworkStartedDefer, singleSpa, routeApps>>

\* Everything but the loader's own state.
extVars == <<renderVars, idVars, mergeVars, regVars, manualVars, startVars>>

vars == <<loaderVars, extVars>>

(* --------------------------- pure functions ---------------------------- *)

\* validateSingularMode: a function policy is called (r is what it returns),
\* anything else is coerced to a boolean.
validateSingularMode(validate, r) ==
  IF validate = "fn" THEN r ELSE validate = "true"

\* getAddOns(global, assetPublicPath): the default hooks.
AddOns ==
  [beforeLoad |-> <<"addon.beforeLoad">>,
   beforeMount |-> <<"addon.beforeMount">>,
   beforeUnmount |-> <<"addon.beforeUnmount">>]

\* The lifeCycles argument of loadApp: the caller's hooks.
LifeCycles ==
  [beforeMount |-> <<"user.beforeMount">>]

HookKeys == {"beforeLoad", "beforeMount", "afterMount", "beforeUnmount", "afterUnmount"}

\* v ?? []
OrEmpty(obj, key) == IF key \in DOMAIN obj THEN obj[key] ELSE <<>>

\* (a variant of mergeWith: the caller's hooks before the default ones)
mergeWith_CallerFirst(defaults, custom, key) ==
  OrEmpty(custom, key) \o OrEmpty(defaults, key)

\* mergeWith({}, defaults, custom, (v1, v2) => concat(v1 ?? [], v2 ?? [])) at one
\* key, with the default ( = [] ) of the destructuring: the customizer is
\* called for the keys of defaults with v1 undefined, then for the keys of
\* custom with v1 what the key has by then.
mergeWith(defaults, custom, key) ==
  (<<>> \o OrEmpty(defaults, key)) \o OrEmpty(custom, key)

\* The hooks of the loader model, merged.
MergedHooks(key) == mergeWith(AddOns, LifeCycles, key)

\* (a variant of HookAt: the list reduced from its end)
HookAt_FromEnd(hooks, k) == hooks[Len(hooks) + 1 - k]

\* The k-th hook the reduce of execHooksChain chains.
HookAt(hooks, k) == hooks[k]

\* execHooksChain after the k-th hook settled: a rejection skips every later
\* then-callback and is the chain's rejection.
execHooksChainNext(hooks, k, ok) ==
  IF ~ok THEN "rejected" ELSE "next"

\* (a variant of ChainRejection: the chain translates the error)
ChainRejection_Wrapped(e) == <<"hook failed", e>>

\* The rejection of the chain when a hook rejects with e: the promise chain
\* hands it on as it is.
ChainRejection(e) == e

\* (a variant of MountSteps: the 'mounted' render before the application's mount)
MountSteps_RenderFirst ==
  <<"mark", "singularWait", "assign", "mountSandbox", "beforeMount",
    "renderMounted", "appMount", "afterMount", "issueToken", "measure">>

\* The mount array of parcelConfig, in order.
MountSteps ==
  <<"mark", "singularWait", "assign", "mountSandbox", "beforeMount",
    "appMount", "renderMounted", "afterMount", "issueToken", "measure">>

\* (a variant of UnmountSteps: the deferred resolved before the 'unmounted' render)
UnmountSteps_ResolveEarly ==
  <<"beforeUnmount", "appUnmount", "unmountSandbox", "afterUnmount",
    "resolveToken", "renderUnmounted">>

\* The unmount array of parcelConfig, in order.
UnmountSteps ==
  <<"beforeUnmount", "appUnmount", "unmountSandbox", "afterUnmount",
    "renderUnmounted", "resolveToken">>

\* (a variant of render: the element is appended whether or not the container
\* holds it)
render_AlwaysAppend(children, element) ==
  IF element # 0 THEN children \o <<element>> ELSE <<>>

\* (a variant of render: the container is not cleared before the append)
render_NoClear(children, element) ==
  IF element # 0 /\ \E k \in 1..Len(children) : children[k] = element
  THEN children
  ELSE IF element # 0 THEN children \o <<element>> ELSE children

\* render({element, ...}, phase) with the container resolved: the children of
\* the container afterwards.  element is 0 for null.
render(children, element) ==
  IF element # 0 /\ \E k \in 1..Len(children) : children[k] = element
  THEN children
  ELSE IF element # 0 THEN <<element>> ELSE <<>>

Contains(children, element) ==
  \E k \in 1..Len(children) : children[k] = element

\* getContainer(container): a selector is looked up in the document when the
\* call is made ("null": nothing matches).
getContainer(container, doc) ==
  IF container \in doc THEN container ELSE "null"

\* (a variant of RenderTarget: the configured container whatever the call gives)
RenderTarget_Configured(remountContainer, container, doc) ==
  getContainer(container, doc)

\* const containerElement = getContainer(remountContainer || container!)
RenderTarget(remountContainer, container, doc) ==
  getContainer(IF remountContainer # NoContainer THEN remountContainer ELSE container, doc)

\* (a variant of RenderAsserts: the container is required in every phase)
RenderAsserts_Always(phase) == TRUE

\* if (phase !== 'unmounted') assertElementExist(containerElement, errorMsg)
RenderAsserts(phase) == phase # "unmounted"

\* assertElementExist(element, msg): TRUE when it throws.
assertElementExist(element) == element = "null"

\* (a variant of renderBranch: the container is asserted before the legacy
\* render function is looked at)
renderBranch_AssertFirst(legacy, target, phase) ==
  IF RenderAsserts(phase) /\ assertElementExist(target) THEN "threw"
  ELSE IF legacy THEN "legacy"
  ELSE "rendered"

\* The way a call of render takes: the legacy render function if there is one,
\* else the assertion on the container, else the managed attachment.
renderBranch(legacy, target, phase) ==
  IF legacy THEN "legacy"
  ELSE IF RenderAsserts(phase) /\ assertElementExist(target) THEN "threw"
  ELSE "rendered"

\* legacyRender({ loading, appContent: element ? appContent : '' })
LegacyArgs(element, loading) ==
  [loading |-> loading, appContent |-> IF element # 0 THEN "appContent" ELSE ""]

\* appInstanceId = `${appName}_${+new Date()}_${Math.floor(Math.random() * 1000)}`
appInstanceId(appName, date, random) == <<appName, date, random>>

\* getXPathForElement(containerElement, document): the place of the container
\* in the document.
getXPathForElement(containerElement) == <<"xpath", containerElement>>

\* getContainerXpath(container) of loadMicroApp ("none": undefined).
getContainerXpath(container, doc) ==
  IF getContainer(container, doc) # "null"
  THEN getXPathForElement(getContainer(container, doc))
  ELSE <<"none">>

\* `${name}-${xpath}`
CacheKey(name, xpath) == <<name, xpath>>

CacheKeys == {CacheKey(n, getXPathForElement(c)) : n \in AppNames, c \in PageContainers}

\* (a variant of MapGet: the cache is never hit)
MapGet_Miss(map, key) == 0

\* appConfigPormiseGetterMap.get(key) (0: undefined)
MapGet(map, key) == map[key]

NoParcel ==
  [state |-> "none", name |-> "none", container |-> NoContainer, via |-> "none",
   load |-> 0, bootstrap |-> "none"]

(* ------------------------------ helpers -------------------------------- *)

Resolved(t) == tokens[t].resolved

\* What an await of the value waits for: nothing for a non-promise ( 0 ), the
\* resolution of a deferred's promise.
Settled(t) == IF t = 0 THEN TRUE ELSE Resolved(t)

CurStep(i) ==
  IF pc[i] = "mount" THEN MountSteps[step[i]]
  ELSE IF pc[i] = "unmount" THEN UnmountSteps[step[i]]
  ELSE "none"

\* The hook chain instance i is running ("none": none).
CurChain(i) ==
  IF pc[i] = "beforeLoad" THEN "beforeLoad"
  ELSE IF CurStep(i) \in HookKeys THEN CurStep(i)
  ELSE "none"

Ev(kind, name) == <<kind, name>>

\* A step of the mount / unmount array resolved: the next one is called, or
\* the transition is complete.
Advance(i, event) ==
  /\ log' = [log EXCEPT ![i] = Append(@, event)]
  /\ sub' = [sub EXCEPT ![i] = "ready"]
  /\ idx' = [idx EXCEPT ![i] = 0]
  /\ waitOn' = [waitOn EXCEPT ![i] = 0]
  /\ IF pc[i] = "mount"
     THEN IF step[i] < Len(MountSteps)
          THEN /\ step' = [step EXCEPT ![i] = @ + 1]
               /\ pc' = pc
          ELSE /\ step' = [step EXCEPT ![i] = 0]
               /\ pc' = [pc EXCEPT ![i] = "mounted"]
     ELSE IF step[i] < Len(UnmountSteps)
          THEN /\ step' = [step EXCEPT ![i] = @ + 1]
               /\ pc' = pc
          ELSE /\ step' = [step EXCEPT ![i] = 0]
               /\ pc' = [pc EXCEPT ![i] = "loaded"]

\* A step rejected with reason e: the transition is over and the caller
\* observes e.
Fail(i, e) ==
  /\ pc' = [pc EXCEPT ![i] = "broken"]
  /\ failedAt' = [failedAt EXCEPT ![i] = IF pc[i] \in {"mount", "unmount"}
                                         THEN CurStep(i) ELSE pc[i]]
  /\ callerErr' = [callerErr EXCEPT ![i] = e]
  /\ sub' = [sub EXCEPT ![i] = "ready"]
  /\ UNCHANGED <<step, idx, waitOn, log>>

(* -------------------------------- Init --------------------------------- *)

NoRender ==
  [phase |-> "none", element |-> 0, remountContainer |-> NoContainer, target |-> "null",
   outcome |-> "none", legacyArgs |-> <<>>,
   before |-> [c \in PageContainers |-> <<>>], repeat |-> FALSE]

\* No load is seen on its own.
RenderIdle ==
  /\ docContainers = PageContainers
  /\ docChildren = [c \in PageContainers |-> <<>>]
  /\ wrapper = 0
  /\ created = 0
  /\ legacyRender = FALSE
  /\ loadingRender = "none"
  /\ lastRender = NoRender

IdsIdle ==
  /\ now = 0
  /\ instanceIds = <<>>

MergeIdle ==
  /\ addOns = AddOns
  /\ lifeCycles = LifeCycles
  /\ mergedHooks = <<>>
  /\ chainKey = "none"
  /\ ran = <<>>

RegIdle ==
  /\ microApps = <<>>
  /\ registered = <<>>

ManualIdle ==
  /\ appConfigPormiseGetterMap = [k \in CacheKeys |-> 0]
  /\ parcels = [j \in Parcels |-> NoParcel]

\* frameworkConfiguration = {}: no key is set.
EmptyConfiguration ==
  [call |-> 0, prefetch |-> "undefined", singular |-> "undefined",
   sandbox |-> "undefined"]

NoRoute == [state |-> "none", config |-> EmptyConfiguration, log |-> <<>>,
            mount |-> <<>>, ran |-> <<>>]

StartIdle ==
  /\ frameworkConfiguration = EmptyConfiguration
  /\ frameworkStartedDefer = FALSE
  /\ singleSpa = [prefetches |-> 0, starts |-> 0]
  /\ routeApps = [r \in Routes |-> NoRoute]

ExtIdle ==
  /\ RenderIdle
  /\ IdsIdle
  /\ MergeIdle
  /\ RegIdle
  /\ ManualIdle
  /\ StartIdle

LoaderInit(n, policies) ==
  /\ apps = 1..n
  /\ singular \in policies
  /\ pc = [i \in AllInst |-> "idle"]
  /\ step = [i \in AllInst |-> 0]
  /\ sub = [i \in AllInst |-> "ready"]
  /\ idx = [i \in AllInst |-> 0]
  /\ waitOn = [i \in AllInst |-> 0]
  /\ prevAppUnmountedDeferred = 0
  /\ tokens = <<>>
  /\ appWrapperElement = [i \in AllInst |-> FALSE]
  /\ dom = [c \in Containers |-> <<>>]
  /\ sandbox = [i \in AllInst |-> "none"]
  /\ stateBus = [i \in AllInst |-> "none"]
  /\ log = [i \in AllInst |-> <<>>]
  /\ callerErr = [i \in AllInst |-> <<>>]
  /\ failedAt = [i \in AllInst |-> "none"]
  /\ decisions = [i \in AllInst |-> {}]

InitWith(n, policies) ==
  /\ LoaderInit(n, policies)
  /\ ExtIdle

Init == InitWith(NumInst, {"true", "false"})

InitPair == InitWith(NumInst + 1, {"true", "false"})

InitFn == InitWith(NumInst + 1, {"fn"})

InitRace == InitWith(NumInst + 2, {"true"})

(* ------------------------------- loadApp ------------------------------- *)

\* loadApp(app, configuration, lifeCycles) is called: it runs up to the await
\* of importEntry.  Every call makes a new instance: instance i is the one the
\* i-th call makes.
LoadAppCall(i) ==
  /\ i \in apps
  /\ pc[i] = "idle"
  /\ \A j \in 1..(i - 1) : pc[j] # "idle"
  /\ pc' = [pc EXCEPT ![i] = "importEntry"]
  /\ UNCHANGED <<apps, singular, stateBus, step, sub, idx, waitOn, prevAppUnmountedDeferred,
                 tokens, appWrapperElement, dom, sandbox, log, callerErr,
                 failedAt, decisions>>

\* The caller (single-spa's app loader) invokes loadApp.
LoadApp(i) ==
  /\ LoadAppCall(i)
  /\ UNCHANGED extVars

\* importEntry resolved: validateSingularMode is called and awaited.
ImportEntryDone(i) ==
  /\ pc[i] = "importEntry"
  /\ pc' = [pc EXCEPT ![i] = "gate"]
  /\ UNCHANGED <<extVars, apps, singular, stateBus, step, sub, idx, waitOn, prevAppUnmountedDeferred,
                 tokens, appWrapperElement, dom, sandbox, log, callerErr,
                 failedAt, decisions>>

\* loadApp from the wrapper's creation to the call of execHooksChain(beforeLoad):
\* the wrapper is created and rendered in phase 'loading', the sandbox is
\* created, the hooks are merged.
PassGate(i) ==
  /\ pc' = [pc EXCEPT ![i] = "beforeLoad"]
  /\ appWrapperElement' = [appWrapperElement EXCEPT ![i] = TRUE]
  /\ dom' = [dom EXCEPT ![Container] = render(@, i)]
  /\ sandbox' = [sandbox EXCEPT ![i] = "created"]
  /\ log' = [log EXCEPT ![i] = <<Ev("render", "loading"), Ev("sandbox", "create")>>]
  /\ sub' = [sub EXCEPT ![i] = "ready"]
  /\ idx' = [idx EXCEPT ![i] = 0]
  /\ waitOn' = [waitOn EXCEPT ![i] = 0]

\* The singular check of loadApp: in singular mode the load awaits
\* prevAppUnmountedDeferred && prevAppUnmountedDeferred.promise.
Gate(i) ==
  /\ pc[i] = "gate"
  /\ \E r \in BOOLEAN :
       LET s == validateSingularMode(singular, r) IN
       /\ decisions' = [decisions EXCEPT ![i] = @ \cup {s}]
       /\ IF s
          THEN /\ pc' = [pc EXCEPT ![i] = "gateWait"]
               /\ waitOn' = [waitOn EXCEPT ![i] = prevAppUnmountedDeferred]
               /\ UNCHANGED <<appWrapperElement, dom, sandbox, log, sub, idx>>
          ELSE PassGate(i)
  /\ UNCHANGED <<extVars, apps, singular, stateBus, step, prevAppUnmountedDeferred, tokens,
                 callerErr, failedAt>>

\* The awaited value settled: undefined at once, a deferred's promise once it
\* is resolved.
GateResume(i) ==
  /\ pc[i] = "gateWait"
  /\ Settled(waitOn[i])
  /\ PassGate(i)
  /\ UNCHANGED <<extVars, apps, singular, stateBus, step, prevAppUnmountedDeferred, tokens,
                 callerErr, failedAt, decisions>>

\* execScripts resolved and the exports hold the lifecycles: the state actions
\* of the instance are created and loadApp returns the parcel config getter.
ExecScriptsDone(i) ==
  /\ pc[i] = "execScripts"
  /\ pc' = [pc EXCEPT ![i] = "loaded"]
  /\ log' = [log EXCEPT ![i] = Append(@, Ev("exec", "scripts"))]
  /\ stateBus' = [stateBus EXCEPT ![i] = "on"]
  /\ UNCHANGED <<extVars, apps, singular, step, sub, idx, waitOn, prevAppUnmountedDeferred,
                 tokens, appWrapperElement, dom, sandbox, callerErr, failedAt,
                 decisions>>

(* ---------------------------- execHooksChain --------------------------- *)

\* The next then-callback of the chain runs: it invokes the next hook.
HookInvoke(i) ==
  /\ CurChain(i) # "none"
  /\ sub[i] = "ready"
  /\ idx[i] < Len(MergedHooks(CurChain(i)))
  /\ idx' = [idx EXCEPT ![i] = @ + 1]
  /\ sub' = [sub EXCEPT ![i] = "pending"]
  /\ log' = [log EXCEPT ![i] =
               Append(@, Ev("invoke", HookAt(MergedHooks(CurChain(i)), idx[i] + 1)))]
  /\ UNCHANGED <<extVars, apps, singular, stateBus, pc, step, waitOn, prevAppUnmountedDeferred, tokens,
                 appWrapperElement, dom, sandbox, callerErr, failedAt, decisions>>

\* The promise of the hook invoked last settles.
HookSettle(i) ==
  /\ CurChain(i) # "none"
  /\ sub[i] = "pending"
  /\ \E ok \in BOOLEAN :
       IF execHooksChainNext(MergedHooks(CurChain(i)), idx[i], ok) = "rejected"
       THEN Fail(i, ChainRejection(Rejection(HookAt(MergedHooks(CurChain(i)), idx[i]))))
       ELSE /\ sub' = [sub EXCEPT ![i] = "ready"]
            /\ log' = [log EXCEPT ![i] =
                 Append(@, Ev("settle", HookAt(MergedHooks(CurChain(i)), idx[i])))]
            /\ UNCHANGED <<pc, step, idx, waitOn, callerErr, failedAt>>
  /\ UNCHANGED <<extVars, apps, singular, stateBus, prevAppUnmountedDeferred, tokens, appWrapperElement,
                 dom, sandbox, decisions>>

\* The chain's promise resolved (at once for an empty list): loadApp goes on
\* to execScripts, a mount or unmount step is complete.
ChainResolve(i) ==
  /\ CurChain(i) # "none"
  /\ sub[i] = "ready"
  /\ idx[i] = Len(MergedHooks(CurChain(i)))
  /\ IF pc[i] = "beforeLoad"
     THEN /\ pc' = [pc EXCEPT ![i] = "execScripts"]
          /\ idx' = [idx EXCEPT ![i] = 0]
          /\ log' = [log EXCEPT ![i] = Append(@, Ev("chain", "beforeLoad"))]
          /\ UNCHANGED <<step, sub, waitOn>>
     ELSE Advance(i, Ev("step", CurChain(i)))
  /\ UNCHANGED <<extVars, apps, singular, stateBus, prevAppUnmountedDeferred, tokens, appWrapperElement,
                 dom, sandbox, callerErr, failedAt, decisions>>

(* ------------------------- parcelConfig.mount -------------------------- *)

AtStep(i, phase, name) ==
  /\ pc[i] = phase
  /\ CurStep(i) = name
  /\ sub[i] = "ready"

\* The caller invokes the mount array of a loaded instance that is not mounted.
Mount(i) ==
  /\ pc[i] = "loaded"
  /\ Len(tokens) + Cardinality({j \in AllInst : pc[j] = "mount"}) < MaxTokens
  /\ pc' = [pc EXCEPT ![i] = "mount"]
  /\ step' = [step EXCEPT ![i] = 1]
  /\ log' = [log EXCEPT ![i] = <<>>]
  /\ UNCHANGED <<extVars, apps, singular, sub, idx, waitOn, prevAppUnmountedDeferred, tokens,
                 appWrapperElement, dom, sandbox, stateBus, callerErr, failedAt,
                 decisions>>

\* Mount step 1: the performance mark (development only).
MountMark(i) ==
  /\ AtStep(i, "mount", "mark")
  /\ Advance(i, Ev("step", "mark"))
  /\ UNCHANGED <<extVars, apps, singular, prevAppUnmountedDeferred, tokens, appWrapperElement,
                 dom, sandbox, stateBus, callerErr, failedAt, decisions>>

\* Mount step 2: in singular mode, with a deferred installed, the step returns
\* its promise.
SingularWait(i) ==
  /\ AtStep(i, "mount", "singularWait")
  /\ \E r \in BOOLEAN :
       LET s == validateSingularMode(singular, r) IN
       /\ decisions' = [decisions EXCEPT ![i] = @ \cup {s}]
       /\ IF s /\ prevAppUnmountedDeferred # 0
          THEN /\ sub' = [sub EXCEPT ![i] = "wait"]
               /\ waitOn' = [waitOn EXCEPT ![i] = prevAppUnmountedDeferred]
               /\ UNCHANGED <<pc, step, idx, log>>
          ELSE Advance(i, Ev("step", "singularWait"))
  /\ UNCHANGED <<extVars, apps, singular, prevAppUnmountedDeferred, tokens, appWrapperElement,
                 dom, sandbox, stateBus, callerErr, failedAt>>

\* The promise mount step 2 returned is resolved.
SingularWaitDone(i) ==
  /\ pc[i] = "mount"
  /\ CurStep(i) = "singularWait"
  /\ sub[i] = "wait"
  /\ Settled(waitOn[i])
  /\ Advance(i, Ev("step", "singularWait"))
  /\ UNCHANGED <<extVars, apps, singular, prevAppUnmountedDeferred, tokens, appWrapperElement,
                 dom, sandbox, stateBus, callerErr, failedAt, decisions>>

\* (a variant of AssignContainer: the wrapper is rendered as it is, null after
\* an unmount)
AssignContainer_NoRecreate(i) ==
  /\ AtStep(i, "mount", "assign")
  /\ dom' = [dom EXCEPT ![Container] = render(@, IF appWrapperElement[i] THEN i ELSE 0)]
  /\ Advance(i, Ev("step", "assign"))
  /\ UNCHANGED <<extVars, apps, singular, prevAppUnmountedDeferred, tokens, sandbox,
                 stateBus, appWrapperElement, callerErr, failedAt, decisions>>

\* Mount step 3: the wrapper is recreated if it was released, and rendered in
\* phase 'mounting'.
AssignContainer(i) ==
  /\ AtStep(i, "mount", "assign")
  /\ appWrapperElement' = [appWrapperElement EXCEPT ![i] = TRUE]
  /\ dom' = [dom EXCEPT ![Container] = render(@, i)]
  /\ Advance(i, Ev("step", "assign"))
  /\ UNCHANGED <<extVars, apps, singular, prevAppUnmountedDeferred, tokens, sandbox, stateBus,
                 callerErr, failedAt, decisions>>

\* Mount step 4: sandboxInstance.mount.
MountSandbox(i) ==
  /\ AtStep(i, "mount", "mountSandbox")
  /\ sandbox' = [sandbox EXCEPT ![i] = "mounted"]
  /\ Advance(i, Ev("step", "mountSandbox"))
  /\ UNCHANGED <<extVars, apps, singular, prevAppUnmountedDeferred, tokens, appWrapperElement,
                 dom, stateBus, callerErr, failedAt, decisions>>

\* Mount step 6: the application's mount, with the container appWrapperGetter()
\* gives (it throws when the wrapper is null).
AppMount(i) ==
  /\ AtStep(i, "mount", "appMount")
  /\ IF ~appWrapperElement[i]
     THEN Fail(i, Rejection("appWrapperGetter"))
     ELSE \E ok \in BOOLEAN :
            IF ok
            THEN /\ Advance(i, Ev("step", "appMount"))
                 /\ UNCHANGED <<callerErr, failedAt>>
            ELSE Fail(i, Rejection("mount"))
  /\ UNCHANGED <<extVars, apps, singular, prevAppUnmountedDeferred, tokens, appWrapperElement,
                 dom, sandbox, stateBus, decisions>>

\* Mount step 7: render in phase 'mounted'.
RenderMounted(i) ==
  /\ AtStep(i, "mount", "renderMounted")
  /\ dom' = [dom EXCEPT ![Container] = render(@, IF appWrapperElement[i] THEN i ELSE 0)]
  /\ Advance(i, Ev("step", "renderMounted"))
  /\ UNCHANGED <<extVars, apps, singular, prevAppUnmountedDeferred, tokens, appWrapperElement,
                 sandbox, stateBus, callerErr, failedAt, decisions>>

\* Mount step 9: in singular mode a new Deferred replaces the module-level one.
IssueToken(i) ==
  /\ AtStep(i, "mount", "issueToken")
  /\ \E r \in BOOLEAN :
       LET s == validateSingularMode(singular, r) IN
       /\ decisions' = [decisions EXCEPT ![i] = @ \cup {s}]
       /\ IF s
          THEN /\ tokens' = Append(tokens, [owner |-> i, resolved |-> FALSE])
               /\ prevAppUnmountedDeferred' = Len(tokens) + 1
          ELSE UNCHANGED <<tokens, prevAppUnmountedDeferred>>
  /\ Advance(i, Ev("step", "issueToken"))
  /\ UNCHANGED <<extVars, apps, singular, appWrapperElement, dom, sandbox, stateBus, callerErr,
                 failedAt>>

\* Mount step 10: the performance measure (development only).
MountMeasure(i) ==
  /\ AtStep(i, "mount", "measure")
  /\ Advance(i, Ev("step", "measure"))
  /\ UNCHANGED <<extVars, apps, singular, prevAppUnmountedDeferred, tokens, appWrapperElement,
                 dom, sandbox, stateBus, callerErr, failedAt, decisions>>

(* ------------------------ parcelConfig.unmount ------------------------- *)

\* The caller invokes the unmount array of a mounted instance.
Unmount(i) ==
  /\ pc[i] = "mounted"
  /\ pc' = [pc EXCEPT ![i] = "unmount"]
  /\ step' = [step EXCEPT ![i] = 1]
  /\ log' = [log EXCEPT ![i] = <<>>]
  /\ UNCHANGED <<extVars, apps, singular, sub, idx, waitOn, prevAppUnmountedDeferred, tokens,
                 appWrapperElement, dom, sandbox, stateBus, callerErr, failedAt,
                 decisions>>

\* Unmount step 2: the application's unmount, with appWrapperGetter().
AppUnmount(i) ==
  /\ AtStep(i, "unmount", "appUnmount")
  /\ IF ~appWrapperElement[i]
     THEN Fail(i, Rejection("appWrapperGetter"))
     ELSE \E ok \in BOOLEAN :
            IF ok
            THEN /\ Advance(i, Ev("step", "appUnmount"))
                 /\ UNCHANGED <<callerErr, failedAt>>
            ELSE Fail(i, Rejection("unmount"))
  /\ UNCHANGED <<extVars, apps, singular, prevAppUnmountedDeferred, tokens, appWrapperElement,
                 dom, sandbox, stateBus, decisions>>

\* Unmount step 3: sandboxInstance.unmount.
UnmountSandbox(i) ==
  /\ AtStep(i, "unmount", "unmountSandbox")
  /\ sandbox' = [sandbox EXCEPT ![i] = "unmounted"]
  /\ Advance(i, Ev("step", "unmountSandbox"))
  /\ UNCHANGED <<extVars, apps, singular, prevAppUnmountedDeferred, tokens, appWrapperElement,
                 dom, stateBus, callerErr, failedAt, decisions>>

\* Unmount step 5: render null in phase 'unmounted', offGlobalStateChange, and
\* the wrapper reference is dropped.
RenderUnmounted(i) ==
  /\ AtStep(i, "unmount", "renderUnmounted")
  /\ dom' = [dom EXCEPT ![Container] = render(@, 0)]
  /\ stateBus' = [stateBus EXCEPT ![i] = "off"]
  /\ appWrapperElement' = [appWrapperElement EXCEPT ![i] = FALSE]
  /\ Advance(i, Ev("step", "renderUnmounted"))
  /\ UNCHANGED <<extVars, apps, singular, prevAppUnmountedDeferred, tokens, sandbox, callerErr,
                 failedAt, decisions>>

\* Unmount step 6: in singular mode the installed deferred, if any, is
\* resolved.
ResolveToken(i) ==
  /\ AtStep(i, "unmount", "resolveToken")
  /\ \E r \in BOOLEAN :
       LET s == validateSingularMode(singular, r) IN
       /\ decisions' = [decisions EXCEPT ![i] = @ \cup {s}]
       /\ IF s /\ prevAppUnmountedDeferred # 0
          THEN tokens' = [tokens EXCEPT ![prevAppUnmountedDeferred].resolved = TRUE]
          ELSE UNCHANGED tokens
  /\ Advance(i, Ev("step", "resolveToken"))
  /\ UNCHANGED <<extVars, apps, singular, prevAppUnmountedDeferred, appWrapperElement, dom,
                 sandbox, stateBus, callerErr, failedAt>>

(* -------------------------------- Next --------------------------------- *)

Next ==
  \E i \in apps :
    \/ LoadApp(i)
    \/ ImportEntryDone(i)
    \/ Gate(i)
    \/ GateResume(i)
    \/ HookInvoke(i)
    \/ HookSettle(i)
    \/ ChainResolve(i)
    \/ ExecScriptsDone(i)
    \/ Mount(i)
    \/ MountMark(i)
    \/ SingularWait(i)
    \/ SingularWaitDone(i)
    \/ AssignContainer(i)
    \/ MountSandbox(i)
    \/ AppMount(i)
    \/ RenderMounted(i)
    \/ IssueToken(i)
    \/ MountMeasure(i)
    \/ Unmount(i)
    \/ AppUnmount(i)
    \/ UnmountSandbox(i)
    \/ RenderUnmounted(i)
    \/ ResolveToken(i)

Spec == Init /\ [][Next]_vars

\* Two loads that may race.
SpecPair == InitPair /\ [][Next]_vars

\* Three loads, all in singular mode.
SpecRace == InitRace /\ [][Next]_vars

\* The singular policy is a function of the app.
SpecFn == InitFn /\ [][Next]_vars

(* ----------------------- render, seen on its own ------------------------ *)

\* One load with the configured container Container.  Its parcel config getter
\* may be called any number of times, each time with or without a
\* remountContainer, and the steps of the parcel configs it gave call render in
\* the order the caller runs them; the page changes between the calls.

\* What the steps of render's callers leave alone.
renderRest == <<loaderVars, idVars, mergeVars, regVars, manualVars, startVars>>

Without(children, element) ==
  SelectSeq(children, LAMBDA e : e # element)

\* render({ element, loading, remountContainer }, phase): the whole function.
\* An append moves the element out of the container that held it.
RenderCall(element, loading, remountContainer, phase) ==
  LET target == RenderTarget(remountContainer, Container, docContainers)
      branch == renderBranch(legacyRender, target, phase)
      managed == branch = "rendered" /\ target # "null"
      moved == managed /\ element # 0 /\ ~Contains(docChildren[target], element)
  IN
  /\ docChildren' =
       IF managed
       THEN [c \in PageContainers |->
               IF c = target THEN render(docChildren[c], element)
               ELSE IF moved THEN Without(docChildren[c], element)
               ELSE docChildren[c]]
       ELSE docChildren
  /\ lastRender' =
       [phase |-> phase, element |-> element, remountContainer |-> remountContainer,
        target |-> IF branch = "legacy" THEN "null" ELSE target,
        outcome |-> branch,
        legacyArgs |-> IF branch = "legacy" THEN LegacyArgs(element, loading) ELSE <<>>,
        before |-> docChildren,
        repeat |-> /\ lastRender.phase = phase
                   /\ lastRender.element = element
                   /\ lastRender.remountContainer = remountContainer
                   /\ lastRender.outcome = branch]

\* loadApp, lines 267 to 287: the wrapper element is created and rendered in
\* phase 'loading'; a throw of render rejects loadApp.
LoadingRender ==
  /\ loadingRender = "none"
  /\ created < MaxElems
  /\ created' = created + 1
  /\ wrapper' = created + 1
  /\ RenderCall(created + 1, TRUE, NoContainer, "loading")
  /\ loadingRender' = lastRender'.outcome
  /\ UNCHANGED <<docContainers, legacyRender, renderRest>>

\* Mount step 3 of a parcel config got with remountContainer r.
MountingRender(r) ==
  /\ loadingRender \in {"rendered", "legacy"}
  /\ wrapper = 0 => created < MaxElems
  /\ created' = IF wrapper = 0 THEN created + 1 ELSE created
  /\ wrapper' = IF wrapper = 0 THEN created + 1 ELSE wrapper
  /\ RenderCall(wrapper', TRUE, r, "mounting")
  /\ UNCHANGED <<docContainers, legacyRender, loadingRender, renderRest>>

\* Mount step 7 of a parcel config got with remountContainer r.
MountedRender(r) ==
  /\ loadingRender \in {"rendered", "legacy"}
  /\ RenderCall(wrapper, FALSE, r, "mounted")
  /\ UNCHANGED <<docContainers, wrapper, created, legacyRender, loadingRender, renderRest>>

\* Unmount step 5 of a parcel config got with remountContainer r.
UnmountedRender(r) ==
  /\ loadingRender \in {"rendered", "legacy"}
  /\ RenderCall(0, FALSE, r, "unmounted")
  /\ wrapper' = 0
  /\ UNCHANGED <<docContainers, created, legacyRender, loadingRender, renderRest>>

\* The host page removes a container from the document, with what it holds.
RemoveContainer(c) ==
  /\ c \in docContainers
  /\ docContainers' = docContainers \ {c}
  /\ docChildren' = [docChildren EXCEPT ![c] = <<>>]
  /\ lastRender' = NoRender
  /\ UNCHANGED <<wrapper, created, legacyRender, loadingRender, renderRest>>

\* The host page puts a container (back) into the document.
AddContainer(c) ==
  /\ c \notin docContainers
  /\ docContainers' = docContainers \cup {c}
  /\ lastRender' = NoRender
  /\ UNCHANGED <<docChildren, wrapper, created, legacyRender, loadingRender, renderRest>>

\* The host page, or another application, puts content of its own into a
\* container.
OtherAppend(c) ==
  /\ c \in docContainers
  /\ ~Contains(docChildren[c], OtherContent)
  /\ docChildren' = [docChildren EXCEPT ![c] = Append(@, OtherContent)]
  /\ lastRender' = NoRender
  /\ UNCHANGED <<docContainers, wrapper, created, legacyRender, loadingRender, renderRest>>

Remounts == {NoContainer, AltContainer}

\* No instance of the loader model is loaded.
LoaderIdle == LoaderInit(NumInst, {"false"})

InitRender ==
  /\ LoaderIdle
  /\ IdsIdle
  /\ MergeIdle
  /\ RegIdle
  /\ ManualIdle
  /\ StartIdle
  /\ docContainers \in SUBSET PageContainers
  /\ docChildren \in [PageContainers -> {<<>>, <<OtherContent>>}]
  /\ \A c \in PageContainers : c \notin docContainers => docChildren[c] = <<>>
  /\ wrapper = 0
  /\ created = 0
  /\ legacyRender \in BOOLEAN
  /\ loadingRender = "none"
  /\ lastRender = NoRender

NextRender ==
  \/ LoadingRender
  \/ \E r \in Remounts : MountingRender(r)
  \/ \E r \in Remounts : MountedRender(r)
  \/ \E r \in Remounts : UnmountedRender(r)
  \/ \E c \in PageContainers : RemoveContainer(c)
  \/ \E c \in PageContainers : AddContainer(c)
  \/ \E c \in PageContainers : OtherAppend(c)

SpecRender == InitRender /\ [][NextRender]_vars

(* --------------------------- instance ids ------------------------------ *)

idRest == <<loaderVars, renderVars, mergeVars, regVars, manualVars, startVars>>

\* loadApp, lines 234 and 235: the instance id is made of the app's name, the
\* time in milliseconds and a random number below RandomRange.
NewInstanceId(appName, random) ==
  /\ Len(instanceIds) < MaxLoads
  /\ instanceIds' = Append(instanceIds, appInstanceId(appName, now, random))
  /\ UNCHANGED <<now, idRest>>

\* A millisecond passes.
Tick ==
  /\ now < MaxTime
  /\ now' = now + 1
  /\ UNCHANGED <<instanceIds, idRest>>

InitIds ==
  /\ LoaderIdle
  /\ RenderIdle
  /\ MergeIdle
  /\ RegIdle
  /\ ManualIdle
  /\ StartIdle
  /\ IdsIdle

NextIds ==
  \/ \E n \in AppNames, r \in RandomSamples : NewInstanceId(n, r)
  \/ Tick

SpecIds == InitIds /\ [][NextIds]_vars

(* ---------------------------- loadMicroApp ----------------------------- *)

manualRest == <<renderVars, idVars, mergeVars, regVars, startVars>>

\* The j-th call of loadMicroApp(app, configuration, lifeCycles):
\* mountRootParcel is given memorizedLoadingFn.
LoadMicroApp(j, name, container) ==
  /\ parcels[j].state = "none"
  /\ \A k \in 1..(j - 1) : parcels[k].state # "none"
  /\ parcels' = [parcels EXCEPT ![j] =
       [NoParcel EXCEPT !.state = "called", !.name = name, !.container = container]]
  /\ UNCHANGED <<appConfigPormiseGetterMap, loaderVars, manualRest>>

\* memorizedLoadingFn runs up to its first await: with a container that has
\* an xpath and a cached promise for the key it awaits that promise; otherwise
\* it calls loadApp, caches the promise under the key if there is one, and
\* awaits it.
MemorizedLoadingFn(j) ==
  /\ parcels[j].state = "called"
  /\ LET container == parcels[j].container
         xpath == IF container # NoContainer
                  THEN getContainerXpath(container, docContainers)
                  ELSE <<"none">>
         keyed == container # NoContainer /\ xpath # <<"none">>
         key == CacheKey(parcels[j].name, xpath)
         hit == IF keyed THEN MapGet(appConfigPormiseGetterMap, key) ELSE 0
     IN
     IF hit # 0
     THEN /\ parcels' = [parcels EXCEPT ![j].state = "await", ![j].via = "cache",
                                         ![j].load = hit]
          /\ UNCHANGED <<appConfigPormiseGetterMap, loaderVars>>
     ELSE \E i \in apps :
            /\ LoadAppCall(i)
            /\ parcels' = [parcels EXCEPT ![j].state = "await", ![j].via = "loadApp",
                                           ![j].load = i]
            /\ appConfigPormiseGetterMap' =
                 IF keyed THEN [appConfigPormiseGetterMap EXCEPT ![key] = i]
                 ELSE appConfigPormiseGetterMap
  /\ UNCHANGED manualRest

\* The awaited promise of loadApp resolved: the getter is called with the
\* container, and on the cached path the bootstrap of the parcel config is
\* replaced by one that does nothing.
ParcelConfigReady(j) ==
  /\ parcels[j].state = "await"
  /\ pc[parcels[j].load] = "loaded"
  /\ parcels' = [parcels EXCEPT ![j].state = "config",
                                 ![j].bootstrap = IF parcels[j].via = "cache"
                                                  THEN "noop" ELSE "app"]
  /\ UNCHANGED <<appConfigPormiseGetterMap, loaderVars, manualRest>>

\* The awaited promise of loadApp rejected: memorizedLoadingFn rejects.
ParcelConfigFailed(j) ==
  /\ parcels[j].state = "await"
  /\ pc[parcels[j].load] = "broken"
  /\ parcels' = [parcels EXCEPT ![j].state = "failed"]
  /\ UNCHANGED <<appConfigPormiseGetterMap, loaderVars, manualRest>>

\* The parcel runs the bootstrap of its config, once.
Bootstrap(j) ==
  /\ parcels[j].state = "config"
  /\ parcels' = [parcels EXCEPT ![j].state = "bootstrapped"]
  /\ UNCHANGED <<appConfigPormiseGetterMap, loaderVars, manualRest>>

InitManual ==
  /\ LoaderInit(NumInst + 1, {"true", "false"})
  /\ RenderIdle
  /\ IdsIdle
  /\ MergeIdle
  /\ RegIdle
  /\ ManualIdle
  /\ StartIdle

NextManual ==
  \/ \E j \in Parcels, n \in AppNames, c \in {NoContainer, Container} :
       LoadMicroApp(j, n, c)
  \/ \E j \in Parcels : MemorizedLoadingFn(j)
  \/ \E j \in Parcels : ParcelConfigReady(j)
  \/ \E j \in Parcels : ParcelConfigFailed(j)
  \/ \E j \in Parcels : Bootstrap(j)
  \/ \E i \in apps : ImportEntryDone(i)
  \/ \E i \in apps : Gate(i)
  \/ \E i \in apps : GateResume(i)
  \/ \E i \in apps : HookInvoke(i)
  \/ \E i \in apps : HookSettle(i)
  \/ \E i \in apps : ChainResolve(i)
  \/ \E i \in apps : ExecScriptsDone(i)

SpecManual == InitManual /\ [][NextManual]_vars

(* ----------------------- the merge of the hooks ------------------------ *)

mergeRest == <<loaderVars, renderVars, idVars, regVars, manualVars, startVars>>

\* The hook lists an object of default hooks and the caller's object may have
\* at a key.
DefaultLists == {<<"d1">>, <<"d1", "d2">>}

CallerLists == {<<>>, <<"u1", "u2">>}

\* The hook objects: any set of the keys, each key with the list.
HookObjects(lists) ==
  {[key \in keys |-> list] : keys \in SUBSET HookKeys, list \in lists}

\* loadApp, lines 319 to 324: the two objects are merged.
MergeHooks ==
  /\ DOMAIN mergedHooks = {}
  /\ mergedHooks' = [key \in HookKeys |-> mergeWith(addOns, lifeCycles, key)]
  /\ UNCHANGED <<addOns, lifeCycles, chainKey, ran, mergeRest>>

\* execHooksChain(toArray(...), app, global) is called for a key.
StartChain(key) ==
  /\ DOMAIN mergedHooks # {}
  /\ chainKey = "none"
  /\ chainKey' = key
  /\ ran' = <<>>
  /\ UNCHANGED <<addOns, lifeCycles, mergedHooks, mergeRest>>

\* The chain invokes its next hook.
RunHook ==
  /\ chainKey # "none"
  /\ Len(ran) < Len(mergedHooks[chainKey])
  /\ ran' = Append(ran, HookAt(mergedHooks[chainKey], Len(ran) + 1))
  /\ UNCHANGED <<addOns, lifeCycles, mergedHooks, chainKey, mergeRest>>

\* The chain has resolved.
EndChain ==
  /\ chainKey # "none"
  /\ Len(ran) = Len(mergedHooks[chainKey])
  /\ chainKey' = "none"
  /\ ran' = <<>>
  /\ UNCHANGED <<addOns, lifeCycles, mergedHooks, mergeRest>>

InitMerge ==
  /\ LoaderIdle
  /\ RenderIdle
  /\ IdsIdle
  /\ RegIdle
  /\ ManualIdle
  /\ StartIdle
  /\ addOns \in HookObjects(DefaultLists)
  /\ lifeCycles \in HookObjects(CallerLists)
  /\ mergedHooks = <<>>
  /\ chainKey = "none"
  /\ ran = <<>>

NextMerge ==
  \/ MergeHooks
  \/ \E key \in HookKeys : StartChain(key)
  \/ RunHook
  \/ EndChain

SpecMerge == InitMerge /\ [][NextMerge]_vars

(* -------------------------- registerMicroApps -------------------------- *)

regRest == <<loaderVars, renderVars, idVars, mergeVars, manualVars, startVars>>

\* The names of the apps a registerMicroApps call may list.
RegNames == AppNames \cup {"c"}

\* The lists of apps a call may be given, as the names of the apps.
AppLists == UNION {[1..n -> RegNames] : n \in 0..MaxListLen}

\* !microApps.some(({name}) => name === app.name)
NotRegistered(list, name) == ~Contains(list, name)

\* registerMicroApps(apps, lifeCycles): the apps whose name microApps does not
\* have yet, as it is when the call is made, are added to microApps, and
\* registerApplication is called for each of them.
RegisterMicroApps(list) ==
  LET unregisteredApps == SelectSeq(list, LAMBDA name : NotRegistered(microApps, name))
  IN
  /\ microApps' = microApps \o unregisteredApps
  /\ registered' = registered \o unregisteredApps
  /\ UNCHANGED regRest

InitReg ==
  /\ LoaderIdle
  /\ RenderIdle
  /\ IdsIdle
  /\ MergeIdle
  /\ ManualIdle
  /\ StartIdle
  /\ RegIdle

NextReg == \E list \in AppLists : RegisterMicroApps(list)

SpecReg == InitReg /\ [][NextReg]_vars

(* ------------------- start and the registered apps --------------------- *)

startRest == <<renderVars, idVars, mergeVars, regVars, manualVars>>

\* The options start may be given: a key is absent ("unset") or false.
StartOpts ==
  [prefetch : {"unset", "false"}, singular : {"unset", "false"},
   sandbox : {"unset", "false"}]

\* {prefetch: true, singular: true, sandbox: true, ...opts}
SpreadOpts(opts) ==
  [key \in {"prefetch", "singular", "sandbox"} |->
     IF opts[key] = "unset" THEN "true" ELSE opts[key]]

\* start(opts), which runs without suspension: the configuration is set from
\* the defaults and the options, the prefetch strategy is run if prefetch is
\* set, a sandbox that is set becomes loose where the page has no Proxy,
\* single-spa is started, and the deferred is resolved last.
Start(opts, hasProxy) ==
  /\ frameworkConfiguration.call < MaxStarts
  /\ LET merged == SpreadOpts(opts)
         checked == IF merged.sandbox # "false" /\ ~hasProxy
                    THEN "loose" ELSE merged.sandbox
     IN
     /\ frameworkConfiguration' =
          [call |-> frameworkConfiguration.call + 1, prefetch |-> merged.prefetch,
           singular |-> merged.singular, sandbox |-> checked]
     /\ singleSpa' =
          [prefetches |-> singleSpa.prefetches
                            + (IF merged.prefetch # "false" THEN 1 ELSE 0),
           starts |-> singleSpa.starts + 1]
  /\ frameworkStartedDefer' = TRUE
  /\ UNCHANGED <<routeApps, loaderVars, startRest>>

\* single-spa invokes the loading function of registered app r, which runs up
\* to its first await: loader(true), then the wait for the deferred.
AppLoadingFn(r) ==
  /\ routeApps[r].state = "none"
  /\ \A k \in 1..(r - 1) : routeApps[k].state # "none"
  /\ routeApps' = [routeApps EXCEPT ![r].state = "waiting",
                                     ![r].log = <<"loader(true)">>]
  /\ UNCHANGED <<frameworkConfiguration, frameworkStartedDefer, singleSpa,
                 loaderVars, startRest>>

\* (a variant of LoadAfterStart: the function does not wait for the deferred)
LoadAfterStart_NoAwait(r) ==
  /\ routeApps[r].state = "waiting"
  /\ routeApps' = [routeApps EXCEPT ![r].state = "loading",
                                     ![r].config = frameworkConfiguration,
                                     ![r].log = Append(@, "loadApp")]
  /\ UNCHANGED <<frameworkConfiguration, frameworkStartedDefer, singleSpa,
                 loaderVars, startRest>>

\* The await of the deferred's promise is over: loadApp is called with the
\* configuration the module holds at that moment.
LoadAfterStart(r) ==
  /\ routeApps[r].state = "waiting"
  /\ frameworkStartedDefer
  /\ routeApps' = [routeApps EXCEPT ![r].state = "loading",
                                     ![r].config = frameworkConfiguration,
                                     ![r].log = Append(@, "loadApp")]
  /\ UNCHANGED <<frameworkConfiguration, frameworkStartedDefer, singleSpa,
                 loaderVars, startRest>>

\* [async () => loader(true), ...toArray(mount), async () => loader(false)]
RouteMount(mount) == (<<"loader(true)">> \o mount) \o <<"loader(false)">>

\* The promise of loadApp resolved: the getter is called and the function
\* returns the parcel config with its mount array wrapped.
LoadAppResolved(r) ==
  /\ routeApps[r].state = "loading"
  /\ routeApps' = [routeApps EXCEPT ![r].state = "loaded",
                                     ![r].mount = RouteMount(MountSteps)]
  /\ UNCHANGED <<frameworkConfiguration, frameworkStartedDefer, singleSpa,
                 loaderVars, startRest>>

\* The promise of loadApp rejected: the loading function rejects.
LoadAppRejected(r) ==
  /\ routeApps[r].state = "loading"
  /\ routeApps' = [routeApps EXCEPT ![r].state = "failed"]
  /\ UNCHANGED <<frameworkConfiguration, frameworkStartedDefer, singleSpa,
                 loaderVars, startRest>>

\* single-spa runs the next function of the returned mount array; a step of
\* loadApp's own mount array may reject, which ends the sequence.
RouteMountStep(r, ok) ==
  /\ routeApps[r].state \in {"loaded", "mounting"}
  /\ LET mount == routeApps[r].mount
         k == Len(routeApps[r].ran) + 1
     IN
     /\ ok \/ mount[k] \notin {"loader(true)", "loader(false)"}
     /\ routeApps' = [routeApps EXCEPT
          ![r].ran = IF ok THEN Append(@, mount[k]) ELSE @,
          ![r].state = IF ~ok THEN "mountFailed"
                       ELSE IF k = Len(mount) THEN "mounted" ELSE "mounting"]
  /\ UNCHANGED <<frameworkConfiguration, frameworkStartedDefer, singleSpa,
                 loaderVars, startRest>>

InitStart ==
  /\ LoaderIdle
  /\ RenderIdle
  /\ IdsIdle
  /\ MergeIdle
  /\ RegIdle
  /\ ManualIdle
  /\ StartIdle

NextStart ==
  \/ \E opts \in StartOpts, hasProxy \in BOOLEAN : Start(opts, hasProxy)
  \/ \E r \in Routes : AppLoadingFn(r)
  \/ \E r \in Routes : LoadAfterStart(r)
  \/ \E r \in Routes : LoadAppResolved(r)
  \/ \E r \in Routes : LoadAppRejected(r)
  \/ \E r \in Routes, ok \in BOOLEAN : RouteMountStep(r, ok)

SpecStart == InitStart /\ [][NextStart]_vars

\* The continuation of an await on a resolved promise is a job the event loop
\* runs: a load that may proceed does.
SpecStartFair ==
  /\ InitStart
  /\ [][NextStart]_vars
  /\ \A r \in Routes : WF_vars(LoadAfterStart(r))

(* ------------------------- notions of the claims ----------------------- *)

IsPrefix(s, t) ==
  /\ Len(s) <= Len(t)
  /\ \A k \in 1..Len(s) : s[k] = t[k]

\* Step `name` of the current transition of instance i has completed.
Done(i, name) == \E k \in 1..Len(log[i]) : log[i][k] = Ev("step", name)

IsHookEvent(e) == e[1] \in {"invoke", "settle"}

\* What running the hooks of a list one after the other records.
RECURSIVE ChainEvents(_)
ChainEvents(hooks) ==
  IF hooks = <<>> THEN <<>>
  ELSE <<Ev("invoke", Head(hooks)), Ev("settle", Head(hooks))>> \o ChainEvents(Tail(hooks))

\* Instance i waits for deferred t, in loadApp or in mount step 2.
Waiting(i, t) ==
  /\ \/ pc[i] = "gateWait"
     \/ pc[i] = "mount" /\ sub[i] = "wait"
  /\ waitOn[i] = t

\* Instance i completes its unmount sequence in this step.
CompletesUnmount(i) == pc[i] = "unmount" /\ pc'[i] = "loaded"

\* From the 'mounting' render of an instance to the end of its 'unmounted' step.
InInterval(i) ==
  \/ pc[i] = "mount" /\ Done(i, "assign")
  \/ pc[i] = "mounted"
  \/ pc[i] = "unmount" /\ ~Done(i, "renderUnmounted")

\* From the call of the application's mount to the end of the unmount sequence.
MountCalled(i) ==
  \/ pc[i] = "mount" /\ Done(i, "appMount")
  \/ pc[i] = "mounted"
  \/ pc[i] = "unmount"

Unresolved == {t \in 1..Len(tokens) : ~tokens[t].resolved}

(* -------------------------------- claims ------------------------------- *)

\* C1 (as claimed): in singular mode the intervals of two instances, each from
\* its 'mounting' render to the end of its 'unmounted' step, never overlap.
C1_NoOverlap ==
  singular = "true" =>
    \A a, b \in apps : a # b => ~(InInterval(a) /\ InInterval(b))

\* C2 (as claimed): at most one deferred that was created and is not yet
\* resolved exists in any state.
C2_AtMostOneUnresolved == Cardinality(Unresolved) <= 1

\* C3 (as claimed): the last unmount step of an instance resolves a deferred
\* only if this instance's mount sequence created it.
C3_OnlyOwnerResolves ==
  [][\A i \in apps : \A t \in 1..Len(tokens) :
       (CompletesUnmount(i) /\ ~tokens[t].resolved /\ tokens'[t].resolved)
         => tokens[t].owner = i]_vars

\* C4 (as claimed): a singular load that finds an unresolved deferred at its
\* gate does nothing of the load (no render, no sandbox, no hook, no script)
\* while it is unresolved, and so of two singular instances the mount callback
\* of the second is called only after the unmount sequence of the first is
\* complete.
C4_GateThenMountAfterUnmount ==
  singular = "true" =>
    /\ \A i \in apps :
         (pc[i] = "gateWait" /\ waitOn[i] # 0 /\ ~Resolved(waitOn[i]))
           => /\ sandbox[i] = "none"
              /\ log[i] = <<>>
              /\ \A k \in 1..Len(dom[Container]) : dom[Container][k] # i
    /\ \A a, b \in apps : a # b => ~(MountCalled(a) /\ MountCalled(b))

\* C5 (as claimed): once the instance that created a deferred has completed
\* its unmount sequence, the deferred is resolved, so that no load or mount
\* stays blocked on it.
C5_WaitersReleased ==
  [][\A i \in apps : \A t \in 1..Len(tokens) :
       (CompletesUnmount(i) /\ tokens[t].owner = i /\ \E w \in apps : Waiting(w, t))
         => tokens'[t].resolved]_vars

\* C6 (as claimed): every singular decision taken for one instance (load gate,
\* mount wait, issuance, resolution) is the same decision.
C6_OneDecision == \A i \in apps : Cardinality(decisions[i]) <= 1

\* The transition the log of instance i belongs to.
Transition(i) ==
  IF \/ pc[i] \in {"beforeLoad", "execScripts"}
     \/ pc[i] = "loaded" /\ stateBus[i] = "on"
     \/ pc[i] = "broken" /\ failedAt[i] = "beforeLoad"
  THEN "load"
  ELSE IF \/ pc[i] \in {"mount", "mounted"}
          \/ pc[i] = "broken" /\ failedAt[i] \in {"beforeMount", "appMount", "afterMount"}
  THEN "mount"
  ELSE IF \/ pc[i] = "unmount"
          \/ pc[i] = "loaded" /\ stateBus[i] = "off"
          \/ pc[i] = "broken" /\ failedAt[i] \in {"beforeUnmount", "appUnmount", "afterUnmount"}
  THEN "unmount"
  ELSE "none"

InContainer(i) == \E k \in 1..Len(dom[Container]) : dom[Container][k] = i

\* The declared mount sequence, with the hooks of its two chains.
C7_Expected ==
  <<Ev("step", "mark"), Ev("step", "singularWait"), Ev("step", "assign"),
    Ev("step", "mountSandbox"),
    Ev("invoke", "addon.beforeMount"), Ev("settle", "addon.beforeMount"),
    Ev("invoke", "user.beforeMount"), Ev("settle", "user.beforeMount"),
    Ev("step", "beforeMount"), Ev("step", "appMount"), Ev("step", "renderMounted"),
    Ev("step", "afterMount"), Ev("step", "issueToken"), Ev("step", "measure")>>

\* C7: what a mount sequence has done so far is always an initial part of the
\* declared order (mark, singular wait, container assignment and 'mounting'
\* render, sandbox mount, beforeMount hooks, application mount, 'mounted'
\* render, afterMount hooks, issuance, measure), all of it once mounted, and
\* the effects of the steps are there exactly when the steps have completed.
C7_MountOrder ==
  \A i \in apps :
    Transition(i) = "mount" =>
      /\ IsPrefix(log[i], C7_Expected)
      /\ pc[i] = "mounted" => log[i] = C7_Expected
      /\ Done(i, "assign") => appWrapperElement[i]
      /\ Done(i, "mountSandbox") <=> sandbox[i] = "mounted"
      /\ (singular = "true" /\ Done(i, "issueToken")) =>
           \E t \in 1..Len(tokens) : tokens[t].owner = i

\* C7 witness: an instance in singular mode has run its whole mount sequence
\* and issued its deferred.
C7_Witness ==
  \E i \in apps :
    /\ pc[i] = "mounted"
    /\ log[i] = C7_Expected
    /\ prevAppUnmountedDeferred # 0
    /\ tokens[prevAppUnmountedDeferred].owner = i

\* The declared unmount sequence, with the hooks of its two chains.
C8_Expected ==
  <<Ev("invoke", "addon.beforeUnmount"), Ev("settle", "addon.beforeUnmount"),
    Ev("step", "beforeUnmount"), Ev("step", "appUnmount"), Ev("step", "unmountSandbox"),
    Ev("step", "afterUnmount"), Ev("step", "renderUnmounted"), Ev("step", "resolveToken")>>

\* C8: what an unmount sequence has done so far is always an initial part of
\* the declared order (beforeUnmount hooks, application unmount, sandbox
\* unmount, afterUnmount hooks, 'unmounted' render with the state channel
\* closed and the wrapper released, resolution), and when the resolution step
\* is reached the sandbox is unmounted, the wrapper released and out of the
\* container, and the state channel closed.
C8_UnmountOrder ==
  \A i \in apps :
    Transition(i) = "unmount" =>
      /\ IsPrefix(log[i], C8_Expected)
      /\ pc[i] = "loaded" => log[i] = C8_Expected
      /\ Done(i, "unmountSandbox") <=> sandbox[i] = "unmounted"
      /\ Done(i, "renderUnmounted") <=> ~appWrapperElement[i]
      /\ Done(i, "renderUnmounted") => stateBus[i] = "off"
      /\ (pc[i] = "unmount" /\ CurStep(i) = "resolveToken") =>
           /\ sandbox[i] = "unmounted"
           /\ ~appWrapperElement[i]
           /\ ~InContainer(i)
           /\ stateBus[i] = "off"

\* C8 witness: an instance has run its whole unmount sequence and resolved the
\* deferred it had issued.
C8_Witness ==
  \E i \in apps :
    /\ pc[i] = "loaded"
    /\ log[i] = C8_Expected
    /\ \E t \in 1..Len(tokens) : tokens[t].owner = i /\ tokens[t].resolved

\* The hook events a load, a mount and an unmount record when their chains run
\* in list order.
C9_LoadEvents == ChainEvents(MergedHooks("beforeLoad"))

C9_MountEvents ==
  ChainEvents(MergedHooks("beforeMount")) \o ChainEvents(MergedHooks("afterMount"))

C9_UnmountEvents ==
  ChainEvents(MergedHooks("beforeUnmount")) \o ChainEvents(MergedHooks("afterUnmount"))

C9_Expected(kind) ==
  IF kind = "load" THEN C9_LoadEvents
  ELSE IF kind = "mount" THEN C9_MountEvents
  ELSE IF kind = "unmount" THEN C9_UnmountEvents
  ELSE <<>>

\* The hooks of the chains a transition has completed.
C9_HooksDone(i, kind) ==
  IF kind = "mount"
  THEN (IF Done(i, "beforeMount") THEN MergedHooks("beforeMount") ELSE <<>>)
       \o (IF Done(i, "afterMount") THEN MergedHooks("afterMount") ELSE <<>>)
  ELSE IF kind = "unmount"
  THEN (IF Done(i, "beforeUnmount") THEN MergedHooks("beforeUnmount") ELSE <<>>)
       \o (IF Done(i, "afterUnmount") THEN MergedHooks("afterUnmount") ELSE <<>>)
  ELSE <<>>

\* C9: the hooks of a chain are invoked one after the other in list order,
\* each only after the one before has settled successfully; a chain is
\* complete only when all its hooks have settled, and an empty chain completes
\* without invoking anything.
C9_ChainInOrder ==
  \A i \in apps :
    LET hev == SelectSeq(log[i], IsHookEvent)
        kind == Transition(i)
    IN
    /\ IsPrefix(hev, C9_Expected(kind))
    /\ (CurChain(i) # "none" /\ sub[i] = "pending") <=>
         (pc[i] # "broken" /\ hev # <<>> /\ hev[Len(hev)][1] = "invoke")
    /\ Len(hev) >= 2 * Len(C9_HooksDone(i, kind))

\* C9 witness: a mount sequence has completed its chain of two hooks and its
\* empty chain.
C9_Witness ==
  \E i \in apps :
    /\ pc[i] = "mount"
    /\ Done(i, "beforeMount")
    /\ Done(i, "afterMount")
    /\ Len(MergedHooks("beforeMount")) = 2
    /\ Len(MergedHooks("afterMount")) = 0

\* What a mount sequence has done when its k-th beforeMount hook rejects.
C10_LogAtReject(k) ==
  <<Ev("step", "mark"), Ev("step", "singularWait"), Ev("step", "assign"),
    Ev("step", "mountSandbox")>>
    \o ChainEvents(SubSeq(MergedHooks("beforeMount"), 1, k - 1))
    \o <<Ev("invoke", MergedHooks("beforeMount")[k])>>

C10_Aborted ==
  \A i \in apps :
    (pc[i] = "broken" /\ failedAt[i] = "beforeMount") =>
      /\ \E k \in 1..Len(MergedHooks("beforeMount")) :
           /\ log[i] = C10_LogAtReject(k)
           /\ callerErr[i] = Rejection(MergedHooks("beforeMount")[k])
      /\ sandbox[i] = "mounted"
      /\ appWrapperElement[i]

C10_NoRollback ==
  \A i \in apps :
    (pc[i] = "mount" /\ pc'[i] = "broken" /\ failedAt'[i] = "beforeMount") =>
      UNCHANGED <<dom, sandbox, appWrapperElement, stateBus, tokens,
                  prevAppUnmountedDeferred>>

\* C10: when a beforeMount hook rejects, the mount sequence has done nothing
\* beyond invoking that hook (no later hook, no application mount, no
\* 'mounted' render, no afterMount hook, no issuance) and does nothing more,
\* the caller observes the hook's own rejection, and the rejection leaves the
\* container, the sandbox and the wrapper as the completed steps left them.
C10_BeforeMountRejects == []C10_Aborted /\ [][C10_NoRollback]_vars

\* C10 witness: the second beforeMount hook has rejected, after the first one
\* had settled.
C10_Witness ==
  \E i \in apps :
    /\ pc[i] = "broken"
    /\ failedAt[i] = "beforeMount"
    /\ callerErr[i] = Rejection("user.beforeMount")
    /\ InContainer(i)

(* ---------------------- claims about the render function --------------- *)

Count(children, element) ==
  Cardinality({k \in 1..Len(children) : children[k] = element})

\* The last call of render took the managed way with its container resolved.
Managed == lastRender.outcome = "rendered" /\ lastRender.target # "null"

\* C11: when render is called a second time with the same element, the same
\* remountContainer and the phase 'mounted', nothing having happened in
\* between, the second call changes no container and the container holds the
\* element exactly once.
C11_RenderIdempotent ==
  (/\ lastRender.repeat
   /\ lastRender.phase = "mounted"
   /\ lastRender.element # 0
   /\ Managed)
    => /\ docChildren = lastRender.before
       /\ Count(docChildren[lastRender.target], lastRender.element) = 1
       /\ \A c \in PageContainers \ {lastRender.target} :
            Count(docChildren[c], lastRender.element) = 0

\* C11 witness: the 'mounted' render was repeated for a wrapper element that
\* shares the alternate container with other content.
C11_Witness ==
  /\ lastRender.repeat
  /\ lastRender.phase = "mounted"
  /\ lastRender.element # 0
  /\ Managed
  /\ lastRender.target = AltContainer
  /\ Contains(docChildren[AltContainer], OtherContent)

\* C12: without a legacy render function, a call of render whose container
\* does not resolve throws in the phases 'loading', 'mounting' and 'mounted'
\* and returns normally in the phase 'unmounted', in both cases leaving every
\* container as it was; render throws in no other case, and once the 'loading'
\* render has thrown the load makes no other call of render.
C12_MissingContainer ==
  /\ (~legacyRender /\ lastRender.phase # "none" /\ lastRender.target = "null")
       => /\ docChildren = lastRender.before
          /\ lastRender.outcome =
               (IF lastRender.phase = "unmounted" THEN "rendered" ELSE "threw")
  /\ lastRender.outcome = "threw"
       => /\ lastRender.target = "null"
          /\ lastRender.phase \in {"loading", "mounting", "mounted"}
  /\ loadingRender = "threw" => lastRender.phase \in {"loading", "none"}

\* C12 witness: the 'mounted' render of a parcel config threw because its
\* container was gone, after the 'loading' render of the load had succeeded.
C12_Witness ==
  /\ ~legacyRender
  /\ loadingRender = "rendered"
  /\ lastRender.phase = "mounted"
  /\ lastRender.target = "null"
  /\ lastRender.outcome = "threw"

\* C13: with a legacy render function every call of render, in every phase,
\* hands { loading, appContent } to that function and does nothing else: it
\* does not throw, whatever the document resolves, and leaves the children of
\* every container as they were.
C13_LegacyBypass ==
  legacyRender =>
    /\ loadingRender \in {"none", "legacy"}
    /\ lastRender.phase # "none" =>
         /\ lastRender.outcome = "legacy"
         /\ docChildren = lastRender.before
         /\ lastRender.legacyArgs =
              LegacyArgs(lastRender.element, lastRender.phase \in {"loading", "mounting"})

\* C13 witness: the legacy render function got the 'mounting' call of a parcel
\* config while the document resolved no container.
C13_Witness ==
  /\ legacyRender
  /\ lastRender.phase = "mounting"
  /\ lastRender.outcome = "legacy"
  /\ docContainers = {}
\* C14 (as claimed): the instance ids of any two loadApp calls differ.
C14_IdsUnique ==
  \A j, k \in 1..Len(instanceIds) : j # k => instanceIds[j] # instanceIds[k]
\* The loadMicroApp calls for the app named n with the configured container
\* whose memorizedLoadingFn has run.
SameKey(n) ==
  {j \in Parcels : /\ parcels[j].name = n
                   /\ parcels[j].container = Container
                   /\ parcels[j].via # "none"}

\* C15: of the loadMicroApp calls with one name and one container (resolving
\* to one xpath) at most one calls loadApp, all of them await the promise of
\* that one call, also while it is still pending, the application's
\* bootstrap is run by at most one of them, and each call served from the
\* cache gets a bootstrap that does nothing.
C15_LoadedOnce ==
  \A n \in AppNames :
    /\ Cardinality({j \in SameKey(n) : parcels[j].via = "loadApp"}) <= 1
    /\ \A j, k \in SameKey(n) : parcels[j].load = parcels[k].load
    /\ Cardinality({j \in SameKey(n) : /\ parcels[j].state = "bootstrapped"
                                       /\ parcels[j].bootstrap = "app"}) <= 1
    /\ \A j \in SameKey(n) :
         (parcels[j].via = "cache" /\ parcels[j].state \in {"config", "bootstrapped"})
           => parcels[j].bootstrap = "noop"

\* C15 witness: two calls with the same name and container have both
\* bootstrapped, the second one having found the promise of the first in the
\* cache.
C15_Witness ==
  \E j, k \in Parcels :
    /\ j < k
    /\ parcels[j].name = parcels[k].name
    /\ parcels[j].container = Container
    /\ parcels[k].container = Container
    /\ parcels[j].via = "loadApp"
    /\ parcels[k].via = "cache"
    /\ parcels[j].state = "bootstrapped"
    /\ parcels[k].state = "bootstrapped"
\* C16: when a managed render call with its container resolved is given an
\* element the container does not hold, the container afterwards holds that
\* element and nothing else, or nothing at all when the element is null (the
\* 'unmounted' call); when the container holds the element already, no
\* container changes.
C16_ClearThenAppend ==
  Managed =>
    IF Contains(lastRender.before[lastRender.target], lastRender.element)
    THEN docChildren = lastRender.before
    ELSE docChildren[lastRender.target] =
           (IF lastRender.element # 0 THEN <<lastRender.element>> ELSE <<>>)

\* C16 witness: a wrapper element was rendered into a container that held
\* other content, which is gone.
C16_Witness ==
  /\ Managed
  /\ lastRender.element # 0
  /\ lastRender.before[lastRender.target] = <<OtherContent>>
  /\ docChildren[lastRender.target] = <<lastRender.element>>

\* C17: a managed render call resolves its container when it is made: the
\* remountContainer if the call has one, else the configured container, as
\* the document stands at the call.  So the 'mounting', 'mounted' and
\* 'unmounted' renders of a parcel config got with the alternate container
\* put the element into, or clear, the alternate container and leave in the
\* configured container only what is not the element, although the 'loading'
\* render of the load went to the configured container.
C17_ResolvedEachCall ==
  (~legacyRender /\ lastRender.phase # "none") =>
    LET wanted == IF lastRender.remountContainer # NoContainer
                  THEN lastRender.remountContainer ELSE Container
    IN
    /\ lastRender.target = (IF wanted \in docContainers THEN wanted ELSE "null")
    /\ lastRender.phase = "loading" => lastRender.remountContainer = NoContainer
    /\ (Managed /\ lastRender.remountContainer = AltContainer) =>
         /\ lastRender.element # 0 =>
              Contains(docChildren[AltContainer], lastRender.element)
         /\ lastRender.element = 0 => docChildren[AltContainer] = <<>>
         /\ docChildren[Container] =
              Without(lastRender.before[Container], lastRender.element)

\* C17 witness: the wrapper element the 'loading' render had put into the
\* configured container is in the alternate container after the 'mounting'
\* render of a parcel config got with the alternate container.
C17_Witness ==
  /\ ~legacyRender
  /\ loadingRender = "rendered"
  /\ lastRender.phase = "mounting"
  /\ lastRender.remountContainer = AltContainer
  /\ Contains(lastRender.before[Container], lastRender.element)
  /\ docChildren[AltContainer] = <<lastRender.element>>
  /\ ~Contains(docChildren[Container], lastRender.element)
\* The instance has completed an unmount sequence before.
Remount(i) == stateBus[i] = "off"

\* C18: in every mount sequence, the first and every later one, the wrapper
\* element exists from the container assignment on: the 'mounting' render, the
\* container accessor of the application's mount and the 'mounted' render
\* all find it, and it stays until unmount step 5, which releases it and
\* after which the instance can be mounted again.
C18_RemountHasWrapper ==
  \A i \in apps :
    /\ (pc[i] = "mount" /\ Done(i, "assign")) => appWrapperElement[i]
    /\ pc[i] = "mounted" => appWrapperElement[i]
    /\ (pc[i] = "unmount" /\ ~Done(i, "renderUnmounted")) => appWrapperElement[i]
    /\ (pc[i] = "unmount" /\ Done(i, "renderUnmounted")) => ~appWrapperElement[i]
    /\ (pc[i] = "loaded" /\ Remount(i)) => ~appWrapperElement[i]
    /\ callerErr[i] # Rejection("appWrapperGetter")

\* C18 witness: an instance that was unmounted is mounted again, with a
\* wrapper element.
C18_Witness ==
  \E i \in apps :
    /\ Remount(i)
    /\ pc[i] = "mounted"
    /\ appWrapperElement[i]
    /\ log[i] = C7_Expected
\* C19: at each of the five keys the merged list is the default hooks in
\* their order followed by the caller's hooks in their order, the empty list
\* when neither object has the key, and a chain invokes the hooks of its key
\* in the order of the merged list.
C19_DefaultsThenCaller ==
  DOMAIN mergedHooks # {} =>
    /\ DOMAIN mergedHooks = HookKeys
    /\ \A key \in HookKeys :
         LET d == OrEmpty(addOns, key)
             u == OrEmpty(lifeCycles, key)
             m == mergedHooks[key]
         IN
         /\ Len(m) = Len(d) + Len(u)
         /\ \A n \in 1..Len(d) : m[n] = d[n]
         /\ \A n \in 1..Len(u) : m[Len(d) + n] = u[n]
         /\ (key \notin DOMAIN addOns /\ key \notin DOMAIN lifeCycles) => m = <<>>
    /\ chainKey # "none" =>
         IsPrefix(ran, OrEmpty(addOns, chainKey) \o OrEmpty(lifeCycles, chainKey))

\* C19 witness: the chain of a key both objects have has invoked the two
\* default hooks and then the two hooks of the caller.
C19_Witness ==
  /\ chainKey = "afterUnmount"
  /\ ran = <<"d1", "d2", "u1", "u2">>
  /\ "afterMount" \notin DOMAIN addOns
  /\ "afterMount" \notin DOMAIN lifeCycles
  /\ mergedHooks["afterMount"] = <<>>
NoTwice(list) ==
  \A j, k \in 1..Len(list) : j # k => list[j] # list[k]

\* C20 (as claimed): microApps never has two entries with one name, and
\* registerApplication is called at most once with a name.
C20_NoDuplicateNames ==
  /\ NoTwice(microApps)
  /\ NoTwice(registered)

RouteLoadStarted(r) == routeApps[r].state \notin {"none", "waiting"}

RouteHasMount(r) ==
  routeApps[r].state \in {"loaded", "mounting", "mounted", "mountFailed"}

\* The loading function of r has kept the order of the claim so far.
RouteGated(r) ==
  /\ routeApps[r].state # "none" => routeApps[r].log[1] = "loader(true)"
  /\ RouteLoadStarted(r) =>
       /\ frameworkStartedDefer
       /\ singleSpa.starts >= 1
       /\ routeApps[r].log = <<"loader(true)", "loadApp">>
       /\ routeApps[r].config.call \in 1..frameworkConfiguration.call
       /\ routeApps[r].config.call = frameworkConfiguration.call =>
            routeApps[r].config = frameworkConfiguration
       /\ routeApps[r].config.prefetch \in {"true", "false"}
       /\ routeApps[r].config.singular \in {"true", "false"}
       /\ routeApps[r].config.sandbox \in {"true", "false", "loose"}
  /\ RouteHasMount(r) =>
       LET mount == routeApps[r].mount IN
       /\ mount[1] = "loader(true)"
       /\ mount[Len(mount)] = "loader(false)"
       /\ SubSeq(mount, 2, Len(mount) - 1) = MountSteps
       /\ IsPrefix(routeApps[r].ran, mount)
  /\ routeApps[r].state = "mounted" => routeApps[r].ran = routeApps[r].mount

\* C21: the loading function of a registered app signals loader(true) and
\* waits; loadApp is called only once start has been called, with the
\* configuration start has set; the mount array it returns has loader(true)
\* first and loader(false) last around loadApp's own; and a load that waits
\* once start has been called eventually proceeds.
C21_LoadAfterStart ==
  /\ [](\A r \in Routes : RouteGated(r))
  /\ \A r \in Routes :
       (routeApps[r].state = "waiting" /\ frameworkStartedDefer)
         ~> RouteLoadStarted(r)

\* A load that has waited, was given the configuration of start and has run
\* its whole mount array.
C21_Witness ==
  \E r \in Routes :
    /\ routeApps[r].state = "mounted"
    /\ routeApps[r].config = frameworkConfiguration
    /\ routeApps[r].config.sandbox = "loose"
    /\ routeApps[r].ran = (<<"loader(true)">> \o MountSteps) \o <<"loader(false)">>

====
